---- MODULE Spec2Model ----
(***************************************************************************)
(* A model of the pknulms LMS client (package pknulms).                    *)
(*                                                                         *)
(* Strings are sequences of runes.  An ASCII rune is written as itself, a  *)
(* Hangul syllable by its romanisation ("gwa","je" is the assignment type, *)
(* "je","chul" the submitted status, "ma","gam","il" the due-date word).   *)
(* A URL literal that the code only concatenates, strips or compares as a  *)
(* whole is written as one element.                                        *)
(*                                                                         *)
(* The client is synchronous: the caller is either idle or holds the       *)
(* outcome of the call it just made.  Every handler is one action; the     *)
(* responses of the portal are the action's inputs.                        *)
(***************************************************************************)
EXTENDS Integers, Sequences, FiniteSets, TLC

VARIABLES
    pc,          \* "idle": no call made yet or its outcome consumed; "done": a call has ended
    op,          \* the handler that ran last
    args,        \* its arguments
    env,         \* the responses the portal gave (or would have given) to its requests
    reqs,        \* the requests it issued, in order
    ret,         \* its outcome: returned values or a panic
    openBodies   \* response bodies obtained and not closed

vars == <<pc, op, args, env, reqs, ret, openBodies>>

(***************************************************************************)
(* Bounds of the model.                                                    *)
(***************************************************************************)
MaxItems == 2      \* data items in one listing response
MaxNodes == 3      \* child nodes of the content container
MaxOpen == 2       \* calls are made while fewer bodies than this are leaked

(***************************************************************************)
(* Program constants.                                                      *)
(***************************************************************************)
MinCount == 8
PageSize == 20
StatusOK == 200

(***************************************************************************)
(* Strings.                                                                *)
(***************************************************************************)
Digits == <<"0", "1", "2", "3", "4", "5", "6", "7", "8", "9">>
DigitSet == {Digits[i] : i \in 1..10}
WhiteSpace == {" ", "\n", "\t"}

RECURSIVE TrimLeft(_)
TrimLeft(s) ==
    IF s # <<>> /\ Head(s) \in WhiteSpace THEN TrimLeft(Tail(s)) ELSE s

RECURSIVE TrimRight(_)
TrimRight(s) ==
    IF s # <<>> /\ s[Len(s)] \in WhiteSpace
    THEN TrimRight(SubSeq(s, 1, Len(s) - 1))
    ELSE s

\* strings.TrimSpace
TrimSpace(s) == TrimRight(TrimLeft(s))

\* strings.Index, 1-based; 0 when sep does not occur in s
Index(s, sep) ==
    LET at == {i \in 1..(Len(s) - Len(sep) + 1) : SubSeq(s, i, i + Len(sep) - 1) = sep}
    IN  IF at = {} THEN 0 ELSE CHOOSE i \in at : \A j \in at : i <= j

\* strings.Contains
Contains(s, sub) == Index(s, sub) # 0

HasPrefix(s, p) == Len(s) >= Len(p) /\ SubSeq(s, 1, Len(p)) = p

\* strings.TrimPrefix
TrimPrefix(s, p) == IF HasPrefix(s, p) THEN SubSeq(s, Len(p) + 1, Len(s)) ELSE s

\* strings.SplitN(s, sep, 2) for a non-empty sep: one or two pieces
SplitN2(s, sep) ==
    LET i == Index(s, sep)
    IN  IF i = 0
        THEN <<s>>
        ELSE <<SubSeq(s, 1, i - 1), SubSeq(s, i + Len(sep), Len(s))>>

RECURSIVE JoinLines(_)
\* strings.Join(lines, "\n")
JoinLines(lines) ==
    IF lines = <<>> THEN <<>>
    ELSE IF Len(lines) = 1 THEN lines[1]
    ELSE lines[1] \o <<"\n">> \o JoinLines(Tail(lines))

RECURSIVE ItoaNat(_)
ItoaNat(n) ==
    IF n < 10 THEN <<Digits[n + 1]>> ELSE ItoaNat(n \div 10) \o <<Digits[(n % 10) + 1]>>

\* strconv.Itoa
Itoa(n) == IF n < 0 THEN <<"-">> \o ItoaNat(-n) ELSE ItoaNat(n)

(***************************************************************************)
(* Errors and outcomes.  An error value is its message and the value the   *)
(* message was formatted with.  A handler ends by returning or by a panic. *)
(***************************************************************************)
NoError == [msg |-> "nil", arg |-> <<>>]
Err(m, a) == [msg |-> m, arg |-> a]
\* the error the HTTP client reports when a request or the reading of its body fails
TransportError == Err("transport", <<>>)

Return(v, e) == [kind |-> "return", value |-> v, err |-> e]
Panic(what) == [kind |-> "panic", value |-> <<>>, err |-> Err(what, <<>>)]
NoOutcome == [kind |-> "none", value |-> <<>>, err |-> NoError]

\* One run of a handler: the requests it issued, the response bodies it
\* obtained and closed, and how it ended.
Exec(rq, opened, closed, r) ==
    [reqs |-> rq, opened |-> opened, closed |-> closed, ret |-> r]

Post(url, form) == [method |-> "POST", url |-> url, form |-> form]
Get(url) == [method |-> "GET", url |-> url, form |-> <<>>]

\* A faulty variant of BodyClosedOnExit: the body is closed by a call placed before
\* the return statements, which a panic skips.
BodyClosedOnExit_NotOnPanic(deferred, kind) ==
    IF deferred /\ kind # "panic" THEN 1 ELSE 0

\* "defer resp.Body.Close()": once registered, the close runs when the
\* function ends, by a return or by a panic alike.
BodyClosedOnExit(deferred, kind) ==
    IF deferred THEN 1 ELSE 0

\* the run of a handler that obtained one response and registered the close
Deferred(rq, r) == Exec(rq, 1, BodyClosedOnExit(TRUE, r.kind), r)

(***************************************************************************)
(* Login.                                                                  *)
(***************************************************************************)
Origin == <<"http://lms.pknu.ac.kr">>
LoginURL == <<"https://lms.pknu.ac.kr", "/ilos/lo/login.acl">>
\* the text the portal shows when the credentials do not match
LoginFailureMarker ==
    <<"ro", "geu", "in", " ", "jeong", "bo", "ga", " ", "il", "chi", "ha", "ji",
      " ", "anh", "seup", "ni", "da", ".">>

LoginForm(id, pw) ==
    [returnURL |-> <<>>, challenge |-> <<>>, response |-> <<>>,
     usr_id |-> id, usr_pwd |-> pw]

\* A faulty variant of LoginResult: the marker is looked for before the status is.
LoginResult_MarkerFirst(resp) ==
    IF ~resp.transportOK THEN Return(FALSE, TransportError)
    ELSE IF ~resp.readOK THEN Return(FALSE, TransportError)
    ELSE IF Contains(resp.body, LoginFailureMarker) THEN Return(FALSE, NoError)
    ELSE IF resp.status # StatusOK
    THEN Return(FALSE, Err("Expected HTTP status code 200, got %d", Itoa(resp.status)))
    ELSE Return(TRUE, NoError)

\* what Login returns for a response
LoginResult(resp) ==
    IF ~resp.transportOK THEN Return(FALSE, TransportError)
    ELSE IF resp.status # StatusOK
    THEN Return(FALSE, Err("Expected HTTP status code 200, got %d", Itoa(resp.status)))
    ELSE IF ~resp.readOK THEN Return(FALSE, TransportError)
    ELSE Return(~Contains(resp.body, LoginFailureMarker), NoError)

LoginRun(id, pw, resp) ==
    LET rq == <<Post(LoginURL, LoginForm(id, pw))>>
    IN  IF ~resp.transportOK
        THEN Exec(rq, 0, 0, LoginResult(resp))
        ELSE Deferred(rq, LoginResult(resp))

(***************************************************************************)
(* The inputs of Login.                                                    *)
(***************************************************************************)
NoResponse == [transportOK |-> FALSE]
Credentials == {<<"u", "1">>, <<"p", "w">>}
LoginBodies ==
    { <<>>,
      <<"o", "k">>,
      LoginFailureMarker,
      <<"<", "p", ">">> \o LoginFailureMarker \o <<"<", "/", "p", ">">>,
      SubSeq(LoginFailureMarker, 1, Len(LoginFailureMarker) - 1),
      Tail(LoginFailureMarker) \o <<"ro">> }
LoginResponses ==
    {NoResponse} \cup
    [transportOK : {TRUE}, status : {200, 302, 500}, readOK : BOOLEAN, body : LoginBodies]

(***************************************************************************)
(* The helpers of the notification extractor.                              *)
(***************************************************************************)
\* splitString: t := strings.SplitN(s, sep, 2); return t[0], t[1].
\* With no separator in s, t has one element and t[1] is out of range.
splitString(s, sep) ==
    LET t == SplitN2(s, sep)
    IN  IF Len(t) < 2
        THEN [panic |-> TRUE, first |-> <<>>, second |-> <<>>]
        ELSE [panic |-> FALSE, first |-> t[1], second |-> t[2]]

\* "." of a regular expression matches any rune but a newline
NoNewline(s) == \A i \in 1..Len(s) : s[i] # "\n"
AllDigits(s) == \A i \in 1..Len(s) : s[i] \in DigitSet
Least(S) == CHOOSE i \in S : \A j \in S : i <= j

AssignmentType == <<"gwa", "je">>
SubmittedStatus == <<"je", "chul">>
DueLiteral == <<" ", "|", " ", "ma", "gam", "il", "(">>

\* dateRe.FindStringSubmatch for ^(.+?) \| <due>\((.+?)\)$ : the whole match and
\* its two groups, or <<>>.  The first group is lazy: the shortest prefix
\* after which the rest of the pattern matches up to the end of the text.
dateReFind(s) ==
    LET k == Len(DueLiteral)
        cuts == {i \in 1..Len(s) :
                    /\ i + k + 2 <= Len(s)
                    /\ SubSeq(s, i + 1, i + k) = DueLiteral
                    /\ s[Len(s)] = ")"
                    /\ NoNewline(SubSeq(s, 1, i))
                    /\ NoNewline(SubSeq(s, i + k + 1, Len(s) - 1))}
    IN  IF cuts = {} THEN <<>>
        ELSE LET i == Least(cuts)
             IN  <<s, SubSeq(s, 1, i), SubSeq(s, i + k + 1, Len(s) - 1)>>

\* idRe.FindStringSubmatch for =(\d+)$ : the whole match and the digits, or <<>>
idReFind(s) ==
    LET at == {i \in 1..Len(s) :
                  /\ s[i] = "="
                  /\ i < Len(s)
                  /\ AllDigits(SubSeq(s, i + 1, Len(s)))}
    IN  IF at = {} THEN <<>>
        ELSE LET i == Least(at)
             IN  <<SubSeq(s, i, Len(s)), SubSeq(s, i + 1, Len(s))>>

RECURSIVE jsStringReFindAll(_, _)
\* jsStringRe.FindAllStringSubmatch(s, -1) for '(.*?)' from position from on:
\* the successive non-overlapping matches, each with its group
jsStringReFindAll(s, from) ==
    LET closes(p) == {q \in (p + 1)..Len(s) :
                         s[q] = "'" /\ NoNewline(SubSeq(s, p + 1, q - 1))}
        opens == {p \in from..Len(s) : s[p] = "'" /\ closes(p) # {}}
    IN  IF opens = {} THEN <<>>
        ELSE LET p == Least(opens)
                 q == Least(closes(p))
             IN  <<<<SubSeq(s, p, q), SubSeq(s, p + 1, q - 1)>>>>
                     \o jsStringReFindAll(s, q + 1)

DigitValue(d) == CHOOSE v \in 0..9 : Digits[v + 1] = d

RECURSIVE StripZeros(_)
StripZeros(ds) ==
    IF ds # <<>> /\ Head(ds) = "0" THEN StripZeros(Tail(ds)) ELSE ds

RECURSIVE DigitsLeq(_, _)
\* a <= b for two digit strings of one length
DigitsLeq(a, b) ==
    IF a = <<>> THEN TRUE
    ELSE IF DigitValue(Head(a)) # DigitValue(Head(b))
    THEN DigitValue(Head(a)) < DigitValue(Head(b))
    ELSE DigitsLeq(Tail(a), Tail(b))

RECURSIVE DecimalValue(_)
DecimalValue(ds) ==
    IF ds = <<>> THEN 0
    ELSE 10 * DecimalValue(SubSeq(ds, 1, Len(ds) - 1)) + DigitValue(ds[Len(ds)])

\* the digits of the largest int (64 bits)
MaxIntDigits ==
    <<"9", "2", "2", "3", "3", "7", "2", "0", "3", "6", "8", "5", "4", "7", "7", "5",
      "8", "0", "7">>

\* strconv.Atoi of a non-empty string of digits: a value, or a range error
Atoi(ds) ==
    LET sig == StripZeros(ds)
        fits == \/ Len(sig) < Len(MaxIntDigits)
                \/ Len(sig) = Len(MaxIntDigits) /\ DigitsLeq(sig, MaxIntDigits)
    IN  IF fits
        THEN [ok |-> TRUE, val |-> DecimalValue(sig)]
        ELSE [ok |-> FALSE, val |-> 0]

(***************************************************************************)
(* GetNotifications.                                                       *)
(*                                                                         *)
(* A listing document is the sequence of its data items, the elements      *)
(* ".resultBox li:nth-of-type(2)" selects.  An item is what the extractor  *)
(* reads of it: the text and the attributes of its first ".site-link"      *)
(* element (an absent element has the empty text and no attribute), the    *)
(* texts of its span descendants and the texts of the anchors of its last  *)
(* div.                                                                    *)
(***************************************************************************)
ListingURL == Origin \o <<"/ilos/mp/mypage_main_list.acl">>
ListingForm(start, count) ==
    [start |-> Itoa(start), display |-> Itoa(count), GUBUN |-> <<>>,
     encoding |-> <<"utf-8">>]

Attr(v) == [exists |-> TRUE, val |-> v]
NoAttr == [exists |-> FALSE, val |-> <<>>]

Notification(id, link, type, title, date, submitted, key, name, prof, preview) ==
    [ID |-> id, Link |-> link, Type |-> type, Title |-> title, Datetime |-> date,
     Submitted |-> submitted, Lecture |-> [Key |-> key, Name |-> name],
     Professor |-> prof, PreviewContent |-> preview]

ItemOK(n) == [kind |-> "ok", n |-> n, err |-> NoError]
ItemError(e) == [kind |-> "error", n |-> <<>>, err |-> e]
ItemPanic == [kind |-> "panic", n |-> <<>>, err |-> NoError]

\* Each(...) over the anchors of the last div: the first is the professor,
\* the second the lecture's name
AnchorText(anchors, i) == IF Len(anchors) >= i THEN TrimSpace(anchors[i]) ELSE <<>>

\* A faulty variant of SubmittedAndDate: a notification of another type is read as
\* an assignment is, when its first span has an assignment's form.
SubmittedAndDate_AnyType(typeText, first) ==
    LET dateMatches == dateReFind(first)
    IN  IF Len(dateMatches) < 3
        THEN IF typeText = AssignmentType
             THEN [ok |-> FALSE, submitted |-> FALSE, date |-> <<>>]
             ELSE [ok |-> TRUE, submitted |-> FALSE, date |-> first]
        ELSE [ok |-> TRUE, submitted |-> (dateMatches[2] = SubmittedStatus),
              date |-> dateMatches[3]]

\* submitted and date of an item, from its type and its first span
SubmittedAndDate(typeText, first) ==
    IF typeText = AssignmentType
    THEN LET dateMatches == dateReFind(first)
         IN  IF Len(dateMatches) < 3
             THEN [ok |-> FALSE, submitted |-> FALSE, date |-> <<>>]
             ELSE [ok |-> TRUE, submitted |-> (dateMatches[2] = SubmittedStatus),
                   date |-> dateMatches[3]]
    ELSE [ok |-> TRUE, submitted |-> FALSE, date |-> first]

\* the body of the EachWithBreak callback for one item
ParseItem(item) ==
    LET split == splitString(TrimSpace(item.text), <<":", " ">>)
        href == item.href.val
        idMatches == idReFind(href)
        id == Atoi(idMatches[2])
        onclick == item.onclick.val
        jsStringMatches == jsStringReFindAll(onclick, 1)
        t == [i \in 1..Len(item.spans) |-> TrimSpace(item.spans[i])]
        sd == SubmittedAndDate(split.first, t[1])
    IN  IF split.panic THEN ItemPanic
        ELSE IF ~item.href.exists
        THEN ItemError(Err("Missing 'href' attribute for the site-link tag", <<>>))
        ELSE IF Len(idMatches) = 0
        THEN ItemError(Err("Mismatching 'href' pattern: %s", href))
        ELSE IF ~id.ok
        THEN ItemError(Err("strconv.Atoi: value out of range", idMatches[2]))
        ELSE IF ~item.onclick.exists
        THEN ItemError(Err("Missing 'onclick' attribute for the site-link tag", <<>>))
        ELSE IF Len(jsStringMatches) < 2 \/ Len(jsStringMatches[2]) < 2
        THEN ItemError(Err("Mismatching 'onclick' pattern: %s", onclick))
        ELSE IF Len(t) < 2 THEN ItemPanic
        ELSE IF ~sd.ok
        THEN ItemError(Err("Mismatching dateText pattern: %s", t[1]))
        ELSE ItemOK(Notification(id.val, Origin \o href, split.first, split.second,
                                 sd.date, sd.submitted, jsStringMatches[2][2],
                                 AnchorText(item.anchors, 2),
                                 AnchorText(item.anchors, 1), t[2]))

RECURSIVE EachWithBreak(_, _, _)
\* the items in document order, from item i on, result holding those
\* appended so far: an error stops the iteration and GetNotifications
\* returns its named results, result and e
EachWithBreak(items, i, result) ==
    IF i > Len(items) THEN Return(result, NoError)
    ELSE LET r == ParseItem(items[i])
         IN  CASE r.kind = "panic" -> Panic("index out of range")
               [] r.kind = "error" -> Return(result, r.err)
               [] OTHER -> EachWithBreak(items, i + 1, Append(result, r.n))

\* A faulty variant of CountAccepted: the check is made against one count less.
CountAccepted_OffByOne(count) == ~(count < MinCount - 1)

\* the precondition of GetNotifications
CountAccepted(count) == ~(count < MinCount)

GetNotificationsRun(start, count, resp) ==
    LET rq == <<Post(ListingURL, ListingForm(start, count))>>
    IN  IF ~CountAccepted(count)
        THEN Exec(<<>>, 0, 0, Return(<<>>, Err("Count must be >= 8", <<>>)))
        ELSE IF ~resp.transportOK
        THEN Exec(rq, 0, 0, Return(<<>>, TransportError))
        ELSE IF ~resp.readOK
        THEN Deferred(rq, Return(<<>>, TransportError))
        ELSE Deferred(rq, EachWithBreak(resp.items, 1, <<>>))

\* A faulty variant of PageStart: pages are counted from 0.
PageStart_FromZero(page) == page * PageSize + 1

\* the offset of the first notification of a page
PageStart(page) == (page - 1) * PageSize + 1

GetNotificationsByPageRun(page, resp) ==
    GetNotificationsRun(PageStart(page), PageSize, resp)

(***************************************************************************)
(* The inputs of GetNotifications and GetNotificationsByPage.              *)
(***************************************************************************)
DueText(status, date) == status \o DueLiteral \o date \o <<")">>

TextAssignment == <<" ", "gwa", "je", ":", " ", "H", "W", "\n">>
TextNotice == <<"gong", "ji", ":", " ", "a", ":", " ", "b">>
TextNoSeparator == <<"gong", "ji">>

HrefGood == Attr(<<"/v?id", "=", "1", "2">>)
HrefNoID == Attr(<<"/v?id", "=">>)
HrefTooLong == Attr(<<"/v?id", "=">> \o [i \in 1..20 |-> "9"])

OnclickGood == Attr(<<"f", "(", "'", "a", "'", ",", "'", "K", "1", "'", ")">>)
OnclickOneLiteral == Attr(<<"f", "(", "'", "a", "'", ")">>)

Preview == <<" ", "p", "v", " ">>
SampleSpans ==
    { <<DueText(SubmittedStatus, <<"D", "1">>), Preview>>,
      <<DueText(<<"mi">> \o SubmittedStatus, <<"D", "1">>), Preview>>,
      <<DueText(SubmittedStatus, <<>>), Preview>>,
      <<<<" ", "D", "2", " ">>, Preview>>,
      <<<<"D", "3">>>>,
      <<>> }
SampleAnchors == <<<<" ", "P", "r">>, <<"L", "e">>>>

Item(text, href, onclick, spans, anchors) ==
    [text |-> text, href |-> href, onclick |-> onclick, spans |-> spans,
     anchors |-> anchors]

SampleItems ==
    {Item(text, HrefGood, OnclickGood, spans, SampleAnchors) :
        text \in {TextAssignment, TextNotice}, spans \in SampleSpans}
    \cup
    {Item(TextNoSeparator, HrefGood, OnclickGood,
          <<<<"D", "2">>, Preview>>, SampleAnchors)}
    \cup
    {Item(TextNotice, href, OnclickGood, <<<<"D", "2">>, Preview>>, SampleAnchors) :
        href \in {NoAttr, HrefNoID, HrefTooLong}}
    \cup
    {Item(TextNotice, HrefGood, onclick, <<<<"D", "2">>, Preview>>, SampleAnchors) :
        onclick \in {NoAttr, OnclickOneLiteral}}
    \cup
    {Item(TextNotice, HrefGood, OnclickGood, <<<<"D", "2">>, Preview>>,
          <<<<"P", "r">>>>)}

Listings == UNION {[1..n -> SampleItems] : n \in 0..MaxItems}
ListingResponses ==
    {NoResponse, [transportOK |-> TRUE, readOK |-> FALSE, items |-> <<>>]}
    \cup
    [transportOK : {TRUE}, readOK : {TRUE}, items : Listings]

\* (start, count)
Windows == {<<1, 8>>, <<21, 20>>, <<1, 7>>, <<1, 0>>, <<5, -3>>}
Pages == {1, 2, 3}
(***************************************************************************)
(* The JSON envelope {isError, message} of the prefetch and note           *)
(* endpoints.  A body is what decoding makes of it: malformed, or an       *)
(* object with the two fields.                                             *)
(***************************************************************************)
JSONError == Err("json", <<>>)
Envelope(isError, message) ==
    [transportOK |-> TRUE, readOK |-> TRUE, wellFormed |-> TRUE,
     isError |-> isError, message |-> message]
Malformed ==
    [transportOK |-> TRUE, readOK |-> TRUE, wellFormed |-> FALSE,
     isError |-> FALSE, message |-> <<>>]
Unreadable ==
    [transportOK |-> TRUE, readOK |-> FALSE, wellFormed |-> FALSE,
     isError |-> FALSE, message |-> <<>>]

(***************************************************************************)
(* prefetchArticle and GetNotificationContent.                             *)
(***************************************************************************)
PrefetchURL == Origin \o <<"/ilos/st/course/eclass_room2.acl">>
PrefetchForm(key, returnURL) ==
    [KJKEY |-> key, returnURI |-> returnURL, encoding |-> <<"utf-8">>]
DetailSuffix == <<"&s=menu&acl=">>

\* A faulty variant of prefetchResult: the envelope's isError is not looked at.
prefetchResult_IgnoresIsError(resp) ==
    IF ~resp.transportOK THEN Return(<<>>, TransportError)
    ELSE IF ~resp.readOK THEN Return(<<>>, TransportError)
    ELSE IF ~resp.wellFormed THEN Panic("json")
    ELSE Return(<<>>, NoError)

\* how prefetchArticle ends for a response
prefetchResult(resp) ==
    IF ~resp.transportOK THEN Return(<<>>, TransportError)
    ELSE IF ~resp.readOK THEN Return(<<>>, TransportError)
    ELSE IF ~resp.wellFormed THEN Panic("json")
    ELSE IF resp.isError THEN Return(<<>>, Err("message", resp.message))
    ELSE Return(<<>>, NoError)

prefetchArticleRun(key, returnURL, resp) ==
    LET rq == <<Post(PrefetchURL, PrefetchForm(key, returnURL))>>
    IN  IF ~resp.transportOK
        THEN Exec(rq, 0, 0, prefetchResult(resp))
        ELSE Deferred(rq, prefetchResult(resp))

\* A faulty variant of filterNotEmptyString: nothing is removed.
filterNotEmptyString_KeepsAll(s) == s

RECURSIVE filterNotEmptyString(_)
filterNotEmptyString(s) ==
    IF s = <<>> THEN <<>>
    ELSE IF Head(s) # <<>>
    THEN <<Head(s)>> \o filterNotEmptyString(Tail(s))
    ELSE filterNotEmptyString(Tail(s))

\* the callback of Map over the container's child nodes
ContentLine(node) ==
    CASE node.name = "script" -> <<>>
      [] node.name = "#text" -> TrimSpace(node.text)
      [] OTHER -> TrimSpace(node.outer)

\* doc.Find(".bbsview .textviewer").Contents()
Contents(doc) == IF doc.present THEN doc.nodes ELSE <<>>

ContentOf(doc) ==
    LET c == Contents(doc)
        lines == [i \in 1..Len(c) |-> ContentLine(c[i])]
    IN  JoinLines(filterNotEmptyString(lines))

GetNotificationContentRun(n, pre, resp) ==
    LET p == prefetchArticleRun(n.Lecture.Key, TrimPrefix(n.Link, Origin), pre)
        rq == p.reqs \o <<Get(n.Link \o DetailSuffix)>>
        opened == p.opened + 1
        closed(r) == p.closed + BodyClosedOnExit(TRUE, r.kind)
    IN  IF p.ret.kind = "panic" THEN p
        ELSE IF p.ret.err # NoError
        THEN Exec(p.reqs, p.opened, p.closed, Return(<<>>, p.ret.err))
        ELSE IF ~resp.transportOK
        THEN Exec(rq, p.opened, p.closed, Return(<<>>, TransportError))
        ELSE IF ~resp.readOK
        THEN Exec(rq, opened, closed(Return(<<>>, TransportError)),
                  Return(<<>>, TransportError))
        ELSE Exec(rq, opened, closed(Return(ContentOf(resp.doc), NoError)),
                  Return(ContentOf(resp.doc), NoError))

(***************************************************************************)
(* SendNote.                                                               *)
(***************************************************************************)
NoteURL == Origin \o <<"/ilos/message/insert_pop.acl">>
NoteForm(to, title, content) ==
    [TITLE |-> title, RECV_IDs |-> to \o <<"^">>, CONTENT |-> content,
     encoding |-> <<"utf-8">>]

SendNoteResult(resp) ==
    IF ~resp.transportOK THEN Return(<<>>, TransportError)
    ELSE IF ~resp.readOK THEN Return(<<>>, TransportError)
    ELSE IF ~resp.wellFormed THEN Return(<<>>, JSONError)
    ELSE IF resp.isError THEN Return(<<>>, Err("message", resp.message))
    ELSE Return(<<>>, NoError)

SendNoteRun(to, title, content, resp) ==
    LET rq == <<Post(NoteURL, NoteForm(to, title, content))>>
    IN  IF ~resp.transportOK
        THEN Exec(rq, 0, 0, SendNoteResult(resp))
        ELSE Deferred(rq, SendNoteResult(resp))

(***************************************************************************)
(* The inputs of GetNotificationContent and SendNote.                      *)
(***************************************************************************)
EnvelopeResponses ==
    {NoResponse, Unreadable, Malformed, Envelope(FALSE, <<>>),
     Envelope(FALSE, <<"o", "k">>), Envelope(TRUE, <<"n", "o">>), Envelope(TRUE, <<>>)}
PrefetchSucceeds(pre) ==
    pre.transportOK /\ pre.readOK /\ pre.wellFormed /\ ~pre.isError

Node(name, text, outer) == [name |-> name, text |-> text, outer |-> outer]
SampleNodes ==
    { Node("script", <<"x">>, <<"<script>", "x", "</script>">>),
      Node("#text", <<"\n", " ", "h", "i", " ">>, <<"\n", " ", "h", "i", " ">>),
      Node("#text", <<"\n", "\t">>, <<"\n", "\t">>),
      Node("p", <<"a", "\n", "b">>, <<"<p>", "a", "\n", "b", "</p>">>),
      Node("br", <<>>, <<"<br/>">>) }
Documents ==
    {[present |-> FALSE, nodes |-> <<>>]}
    \cup
    [present : {TRUE}, nodes : UNION {[1..k -> SampleNodes] : k \in 0..MaxNodes}]
DetailResponses ==
    {NoResponse,
     [transportOK |-> TRUE, readOK |-> FALSE, doc |-> [present |-> FALSE, nodes |-> <<>>]]}
    \cup
    [transportOK : {TRUE}, readOK : {TRUE}, doc : Documents]

\* the notifications GetNotificationContent is called with
SampleNotifications ==
    { Notification(12, Origin \o <<"/v?id", "=", "1", "2">>, AssignmentType, <<"H", "W">>,
                   <<"D", "1">>, TRUE, <<"K", "1">>, <<"L", "e">>, <<"P", "r">>, <<"p", "v">>),
      Notification(0, <<"/v?id", "=", "7">>, <<"gong", "ji">>, <<"a">>,
                   <<"D", "2">>, FALSE, <<>>, <<>>, <<>>, <<>>) }
\* the two responses of one call: the second is asked for only after the
\* first succeeded
ContentResponses ==
    {<<pre, NoResponse>> : pre \in {e \in EnvelopeResponses : ~PrefetchSucceeds(e)}}
    \cup
    ({e \in EnvelopeResponses : PrefetchSucceeds(e)} \X DetailResponses)

NoteTexts == {<<>>, <<"h", "i">>}

(***************************************************************************)
(* The state machine.                                                      *)
(***************************************************************************)
Init ==
    /\ pc = "idle"
    /\ op = "none"
    /\ args = <<>>
    /\ env = <<>>
    /\ reqs = <<>>
    /\ ret = NoOutcome
    /\ openBodies = 0

\* the caller may make a call
Idle == pc = "idle" /\ openBodies < MaxOpen

\* the handler runs to its end
Done(name, a, e, x) ==
    /\ pc' = "done"
    /\ op' = name
    /\ args' = a
    /\ env' = e
    /\ reqs' = x.reqs
    /\ ret' = x.ret
    /\ openBodies' = openBodies + x.opened - x.closed

Login ==
    /\ Idle
    /\ \E id \in Credentials, pw \in Credentials, resp \in LoginResponses :
          Done("Login", [id |-> id, pw |-> pw], <<resp>>, LoginRun(id, pw, resp))

GetNotifications ==
    /\ Idle
    /\ \E w \in Windows, resp \in ListingResponses :
          Done("GetNotifications", [start |-> w[1], count |-> w[2]], <<resp>>,
               GetNotificationsRun(w[1], w[2], resp))

GetNotificationsByPage ==
    /\ Idle
    /\ \E page \in Pages, resp \in ListingResponses :
          Done("GetNotificationsByPage", [page |-> page], <<resp>>,
               GetNotificationsByPageRun(page, resp))

GetNotificationContent ==
    /\ Idle
    /\ \E n \in SampleNotifications, rs \in ContentResponses :
          Done("GetNotificationContent", [n |-> n], rs,
               GetNotificationContentRun(n, rs[1], rs[2]))

SendNote ==
    /\ Idle
    /\ \E to \in Credentials, title \in NoteTexts, content \in NoteTexts,
          resp \in EnvelopeResponses :
          Done("SendNote", [to |-> to, title |-> title, content |-> content],
               <<resp>>, SendNoteRun(to, title, content, resp))

\* the caller takes the outcome and goes on to its next call
Resume ==
    /\ pc = "done"
    /\ pc' = "idle"
    /\ op' = "none"
    /\ args' = <<>>
    /\ env' = <<>>
    /\ reqs' = <<>>
    /\ ret' = NoOutcome
    /\ UNCHANGED openBodies

Next ==
    \/ Login
    \/ GetNotifications
    \/ GetNotificationsByPage
    \/ GetNotificationContent
    \/ SendNote
    \/ Resume

Spec == Init /\ [][Next]_vars

(***************************************************************************)
(* Vocabulary of the properties.                                           *)
(***************************************************************************)
Listed == op \in {"GetNotifications", "GetNotificationsByPage"}
\* the listing call got a document and went through its items
ListingRead == Listed /\ reqs # <<>> /\ env[1].transportOK /\ env[1].readOK
Returned == ret.kind = "return"
Failed == Returned /\ ret.err # NoError
Separator == <<":", " ">>
HasSeparator(s) ==
    \E i \in 1..Len(s) : i < Len(s) /\ s[i] = ":" /\ s[i + 1] = " "
\* the ways to read s as  status | due(date)
DueSplits(s) ==
    {sd \in {<<SubSeq(s, 1, i), SubSeq(s, j, Len(s) - 1)>> :
                 i \in 1..Len(s), j \in 1..Len(s)} :
        /\ sd[1] # <<>> /\ sd[2] # <<>>
        /\ NoNewline(sd[1]) /\ NoNewline(sd[2])
        /\ s = sd[1] \o DueLiteral \o sd[2] \o <<")">>}
\* the reading with the shortest status
DueSplit(s) ==
    CHOOSE sd \in DueSplits(s) : \A o \in DueSplits(s) : Len(sd[1]) <= Len(o[1])
FirstSpan(item) == TrimSpace(item.spans[1])
\* the errors an item raises before its spans are looked at
AnchorErrors ==
    {"Missing 'href' attribute for the site-link tag", "Mismatching 'href' pattern: %s",
     "strconv.Atoi: value out of range",
     "Missing 'onclick' attribute for the site-link tag",
     "Mismatching 'onclick' pattern: %s"}

\* C1: when a parse error on an item aborts GetNotifications, the call
\* returns the error and an empty list, whatever was parsed before.
C1_NoPartialResults ==
    (op = "GetNotifications" /\ ListingRead /\ Failed) => ret.value = <<>>

\* C2: with count < 8 GetNotifications returns an error and issues no
\* request; with count >= 8 it issues exactly one POST to the listing endpoint.
C2_PreconditionBeforeRequest ==
    op = "GetNotifications" =>
        IF args.count < 8
        THEN Failed /\ ret.value = <<>> /\ reqs = <<>> /\ openBodies = 0
        ELSE /\ Len(reqs) = 1
             /\ reqs[1].method = "POST"
             /\ reqs[1].url = ListingURL
             /\ reqs[1].form.display = Itoa(args.count)
             /\ ret.err.msg # "Count must be >= 8"

C2_Witness ==
    /\ op = "GetNotifications" /\ args.count = 7 /\ reqs = <<>>
    /\ ret = Return(<<>>, Err("Count must be >= 8", <<>>))

\* C3: Login returns (false, error) on a transport failure and on any
\* status other than 200 whatever the body; with status 200 it returns
\* (false, nil) when the body holds the failure marker and (true, nil)
\* when it does not.  A body that cannot be read is a transport failure.
C3_LoginOutcome ==
    op = "Login" =>
        LET r == env[1]
            marked == \E i \in 1..Len(r.body) :
                         /\ i + Len(LoginFailureMarker) - 1 <= Len(r.body)
                         /\ SubSeq(r.body, i, i + Len(LoginFailureMarker) - 1)
                                = LoginFailureMarker
        IN  /\ Returned
            /\ ~r.transportOK => (ret.value = FALSE /\ ret.err # NoError)
            /\ (r.transportOK /\ r.status # 200) =>
                   (ret.value = FALSE /\ ret.err # NoError)
            /\ (r.transportOK /\ r.status = 200 /\ ~r.readOK) =>
                   (ret.value = FALSE /\ ret.err # NoError)
            /\ (r.transportOK /\ r.status = 200 /\ r.readOK /\ marked) =>
                   ret = Return(FALSE, NoError)
            /\ (r.transportOK /\ r.status = 200 /\ r.readOK /\ ~marked) =>
                   ret = Return(TRUE, NoError)

C3_Witness ==
    /\ op = "Login" /\ env[1].transportOK /\ env[1].status = 200 /\ env[1].readOK
    /\ env[1].body = <<"<", "p", ">">> \o LoginFailureMarker \o <<"<", "/", "p", ">">>
    /\ ret = Return(FALSE, NoError)

\* C4: GetNotificationContent issues the prefetch POST first and the detail
\* GET only after the prefetch succeeded; when the prefetch fails at
\* transport level or its envelope has isError, the call returns an error
\* (the envelope's message) with empty content and issues no GET.
C4_PrefetchBeforeDetail ==
    op = "GetNotificationContent" =>
        LET pre == env[1]
            transportFailed == ~pre.transportOK
            signalled == pre.transportOK /\ pre.readOK /\ pre.wellFormed /\ pre.isError
        IN  /\ Len(reqs) >= 1
            /\ reqs[1].method = "POST" /\ reqs[1].url = PrefetchURL
            /\ \A i \in 1..Len(reqs) :
                  reqs[i].method = "GET" =>
                      /\ i = 2
                      /\ pre.transportOK /\ pre.readOK /\ pre.wellFormed /\ ~pre.isError
            /\ (transportFailed \/ signalled) =>
                  /\ Failed /\ ret.value = <<>>
                  /\ \A i \in 1..Len(reqs) : reqs[i].method # "GET"
            /\ signalled => ret.err.arg = pre.message

C4_Witness ==
    /\ op = "GetNotificationContent"
    /\ env[1] = Envelope(TRUE, <<"n", "o">>)
    /\ Len(reqs) = 1
    /\ ret = Return(<<>>, Err("message", <<"n", "o">>))

\* C5: a malformed JSON envelope in the prefetch response reaches the
\* caller of GetNotificationContent as a returned error, never as a panic.
C5_MalformedEnvelopeReturned ==
    (/\ op = "GetNotificationContent"
     /\ env[1].transportOK /\ env[1].readOK /\ ~env[1].wellFormed)
        => Failed

\* C6: an item whose trimmed anchor text has no ": " makes GetNotifications
\* return a parse error; with the separator, Type is the text before the
\* first ": " and Title all that follows it.
C6_SplitTypeTitle ==
    (op = "GetNotifications" /\ ListingRead) =>
        /\ (\E k \in 1..Len(env[1].items) :
               ~HasSeparator(TrimSpace(env[1].items[k].text))) => Failed
        /\ Returned =>
              \A i \in 1..Len(ret.value) :
                  LET text == TrimSpace(env[1].items[i].text)
                      n == ret.value[i]
                  IN  /\ text = n.Type \o Separator \o n.Title
                      /\ ~HasSeparator(n.Type \o <<":">>)

\* C7: a returned notification has Submitted only if its Type is the
\* assignment type and its first span reads  status | due(date)  with the
\* submitted status; an assignment's Datetime is that date, and an
\* assignment whose first span does not read so is an error; any other
\* Type has the first span's trimmed text as Datetime and Submitted false.
C7_SubmittedAndDatetime ==
    (ListingRead /\ Returned) =>
        /\ \A i \in 1..Len(ret.value) :
              LET n == ret.value[i]
                  first == FirstSpan(env[1].items[i])
              IN  IF n.Type = AssignmentType
                  THEN /\ DueSplits(first) # {}
                       /\ n.Datetime = DueSplit(first)[2]
                       /\ n.Submitted = (DueSplit(first)[1] = SubmittedStatus)
                  ELSE n.Datetime = first /\ ~n.Submitted
        /\ LET k == Len(ret.value) + 1
           IN  (/\ k <= Len(env[1].items)
                /\ ret.err.msg \notin AnchorErrors
                /\ HasPrefix(TrimSpace(env[1].items[k].text), AssignmentType \o Separator))
                   => /\ DueSplits(FirstSpan(env[1].items[k])) = {}
                      /\ ret.err = Err("Mismatching dateText pattern: %s",
                                       FirstSpan(env[1].items[k]))

C7_Witness ==
    /\ ListingRead /\ Returned /\ Len(ret.value) >= 1
    /\ ret.value[1].Type # AssignmentType
    /\ ret.value[1].Datetime = DueText(SubmittedStatus, <<"D", "1">>)
    /\ ~ret.value[1].Submitted

\* C8: GetNotificationsByPage(page) issues the request and returns the
\* result of GetNotifications((page-1)*20+1, 20), and never fails the
\* precondition on count.
C8_PageIsWindow ==
    op = "GetNotificationsByPage" =>
        LET x == GetNotificationsRun((args.page - 1) * 20 + 1, 20, env[1])
        IN  /\ reqs = x.reqs
            /\ ret = x.ret
            /\ Len(reqs) = 1
            /\ reqs[1].form.display = <<"2", "0">>
            /\ args.page = 1 => reqs[1].form.start = <<"1">>
            /\ args.page = 3 => reqs[1].form.start = <<"4", "1">>
            /\ ret.err.msg # "Count must be >= 8"

C8_Witness ==
    /\ op = "GetNotificationsByPage" /\ args.page = 3
    /\ reqs = <<Post(ListingURL, ListingForm(41, 20))>>
    /\ Returned /\ ret.err = NoError /\ Len(ret.value) = MaxItems

\* C9: every response body a handler obtained is closed when the handler
\* ends, by a return, an early error return or a panic: no body is open
\* after any sequence of calls.
C9_BodiesClosed == openBodies = 0

C9_Witness ==
    /\ op = "GetNotificationContent" /\ ret.kind = "panic"
    /\ env[1].transportOK
    /\ openBodies = 0

RECURSIVE ExpectedContent(_)
\* the non-empty fragments of the nodes, in order, a newline between two
ExpectedContent(nodes) ==
    IF nodes = <<>> THEN <<>>
    ELSE LET node == Head(nodes)
             fragment == IF node.name = "script" THEN <<>>
                         ELSE IF node.name = "#text" THEN TrimSpace(node.text)
                         ELSE TrimSpace(node.outer)
             rest == ExpectedContent(Tail(nodes))
         IN  IF fragment = <<>> THEN rest
             ELSE IF rest = <<>> THEN fragment
             ELSE fragment \o <<"\n">> \o rest

\* C10: the content is the container's child nodes in document order, a
\* script as the empty string, a text node trimmed, another element as its
\* trimmed markup, the empty fragments removed and the rest joined by one
\* newline; with no container or only empty fragments it is the empty
\* string and no error.
C10_ContentFragments ==
    (/\ op = "GetNotificationContent"
     /\ Len(reqs) = 2 /\ env[2].transportOK /\ env[2].readOK) =>
        LET doc == env[2].doc
        IN  /\ ret = Return(IF doc.present THEN ExpectedContent(doc.nodes) ELSE <<>>,
                            NoError)
            /\ ~doc.present => ret.value = <<>>
            /\ (\A i \in 1..Len(doc.nodes) :
                   \/ doc.nodes[i].name = "script"
                   \/ doc.nodes[i].name = "#text" /\ TrimSpace(doc.nodes[i].text) = <<>>)
                  => ret.value = <<>>

C10_Witness ==
    /\ op = "GetNotificationContent" /\ Len(reqs) = 2
    /\ env[2].transportOK /\ env[2].readOK /\ env[2].doc.present
    /\ Len(env[2].doc.nodes) = 3
    /\ env[2].doc.nodes[1].name = "script"
    /\ env[2].doc.nodes[2].name = "#text"
    /\ env[2].doc.nodes[3].name = "p"
    /\ ret = Return(<<"h", "i", "\n", "<p>", "a", "\n", "b", "</p>">>, NoError)

\* C11: GetNotifications ends by returning (list, error) for any listing
\* response: a data item with fewer than two span descendants gives a
\* returned error or a notification, never an out-of-range panic.  (Items
\* whose anchor text has no separator are left to C6.)
C11_FewSpansReturned ==
    (/\ Listed /\ ListingRead
     /\ \A k \in 1..Len(env[1].items) : HasSeparator(TrimSpace(env[1].items[k].text))
     /\ \E k \in 1..Len(env[1].items) : Len(env[1].items[k].spans) < 2)
        => Returned

====
